---- MODULE Spec2Model ----
(***************************************************************************)
(* Dependency-path enumeration of csccva/grapth-search.                    *)
(*                                                                         *)
(* Three programs solve the same problem and are modelled side by side;    *)
(* the variable impl says which one a behaviour runs:                      *)
(*   "part_000"  the C++ program that copies path/visited per branch       *)
(*   "main.cpp"  the C++ program that copies and also backtracks           *)
(*   "main.c"    the C program with one shared path buffer                 *)
(* The recursion of find_paths is an explicit stack of activation frames.  *)
(***************************************************************************)
EXTENDS Integers, Sequences, FiniteSets, TLC

\* ------------------------------------------------------------------ bounds
NumNodes == 3
MaxEdges == 3
MaxDepth == 8

NodeNames == <<"A", "B", "C", "D", "E", "G">>
Nodes == {NodeNames[j] : j \in 1..NumNodes}

\* the scenarios of the specification's section 8 that need their own names
ScenarioB == << <<"D", "E">> >>
ScenarioC == << <<"F3", "A1">>, <<"A1", "B1">>, <<"B1", "C1">>, <<"D3", "G3">> >>
ScenarioA == << <<"A", "B">>, <<"B", "C">>, <<"C", "A">> >>
ScenarioD == << <<"A", "B">>, <<"A", "C">> >>

\* two branches that meet again in a sink
Diamond == << <<"A", "B">>, <<"A", "C">>, <<"B", "D">>, <<"C", "D">> >>

NodeIdx(n) == CHOOSE j \in 1..Len(NodeNames) : NodeNames[j] = n

\* the identifiers of an edge list in reading order: from, to, from, to, ...
Flat(es) == [p \in 1..(2 * Len(es)) |-> es[(p + 1) \div 2][IF p % 2 = 1 THEN 1 ELSE 2]]

\* Identifiers are opaque: the programs only compare them for equality (the
\* order of the C++ hash map is modelled as arbitrary).  Inputs are therefore
\* taken up to renaming: the first identifier read is "A", the next new one "B", ...
Canonical(es) ==
    LET f == Flat(es)
    IN  \A p \in 1..Len(f) : \A m \in 1..(NodeIdx(f[p]) - 1) :
            \E q \in 1..(p - 1) : f[q] = NodeNames[m]

GenericEdgeLists ==
    {es \in UNION {[1..n -> Nodes \X Nodes] : n \in 0..MaxEdges} : Canonical(es)}

EdgeLists == GenericEdgeLists \cup {ScenarioA, ScenarioB, ScenarioC, ScenarioD, Diamond}

Impls == {"part_000", "main.cpp", "main.c"}

VARIABLES
    edges,      \* the triples read from dependencies.txt, arrow dropped
    impl,       \* which program runs
    adj_list,   \* C++: unordered_map node -> vector of successors
    act_dep,    \* C++: unordered_map node -> bool
    order,      \* C++: the order in which the unordered_map yields its keys
    graph,      \* C: the table graph[0..graph_size-1] of Node structs
    i,          \* position of the top-level loop (1-based)
    pc,         \* "loop", "classify", "print", "done"
    path,       \* main's local path (C++: vector, C: the buffer path[])
    visited,    \* main's local visited set (C++ only)
    stack,      \* activation frames of find_paths, outermost first
    all_paths,  \* the result collection
    roots,      \* history: the top-level calls made, with the result count before
    called,     \* history: nodes find_paths has been invoked on
    log,        \* history: the calls of find_paths and the paths stored, in order
    ci,         \* position of the classification / printing loop (1-based)
    no_loop_paths,      \* C++: rendered paths without a repeated node
    is_loop_paths,      \* C++: rendered paths whose first and last node agree
    contain_loop_paths, \* C++: rendered paths with another repeated node
    verdicts,   \* history: the category computed for all_paths[j], in order
    printed,    \* the lines written to the console
    run,        \* 1 in a first run, 2 in a second run on the same input
    prev        \* what is kept of the first run once a second run began

vars == <<edges, impl, adj_list, act_dep, order, graph, i, pc, path, visited,
          stack, all_paths, roots, called, log, ci, no_loop_paths,
          is_loop_paths, contain_loop_paths, verdicts, printed, run, prev>>

inputVars == <<edges, impl, adj_list, order, run, prev>>
outVars == <<ci, no_loop_paths, is_loop_paths, contain_loop_paths, verdicts, printed>>

\* ------------------------------------------------------------ input shaping
Last(s) == s[Len(s)]
Range(s) == {s[j] : j \in 1..Len(s)}

\* successors taken from the row after the matching one
TargetsShifted(es, k) ==
    LET idx == SelectSeq([j \in 1..Len(es) |-> j], LAMBDA j : es[j][1] = k)
    IN  [j \in 1..Len(idx) |-> es[IF idx[j] < Len(es) THEN idx[j] + 1 ELSE 1][2]]

\* successors collected without repetition, as a set-like container would
TargetsDedup(es, k) ==
    LET sel == SelectSeq(es, LAMBDA e : e[1] = k)
        all == [j \in 1..Len(sel) |-> sel[j][2]]
        idx == SelectSeq([j \in 1..Len(all) |-> j],
                         LAMBDA j : \A h \in 1..(j - 1) : all[h] # all[j])
    IN  [j \in 1..Len(idx) |-> all[idx[j]]]

\* the right-hand sides of the edges whose left-hand side is k, in input order
Targets(es, k) ==
    LET sel == SelectSeq(es, LAMBDA e : e[1] = k)
    IN  [j \in 1..Len(sel) |-> sel[j][2]]

Sources(es) == {es[j][1] : j \in 1..Len(es)}

\* a reading loop that runs once more at the end of the file, on empty strings
BuildAdjListExtraRow(es) ==
    LET rows == Append(es, <<"", "">>)
    IN  [k \in Sources(rows) |-> Targets(rows, k)]

\* adj_list as main builds it: one entry per distinct left-hand side
BuildAdjList(es) == [k \in Sources(es) |-> Targets(es, k)]

\* every sequence that lists each element of S once
Perms(S) == {f \in [1..Cardinality(S) -> S] : \A a, b \in 1..Cardinality(S) : f[a] = f[b] => a = b}

\* ---------------------------------------------------------------- history
\* find_paths is entered at recursion depth d on node n, with the path p and
\* the visited set v its parameters refer to at that moment
CallEvent(n, d, p, v) == [op |-> "call", node |-> n, depth |-> d, path |-> p, visited |-> v]

\* the activation at depth d stores p in the result collection
EmitEvent(d, p) == [op |-> "emit", node |-> Last(p), depth |-> d, path |-> p, visited |-> {}]

\* ---------------------------------------------------------------- C++ side
HasEntry(n) == n \in DOMAIN adj_list

\* a loop over the successors that stops after the first one
NeighborsFirstOnly(n) == IF HasEntry(n) THEN <<adj_list[n][1]>> ELSE <<>>

\* a loop that walks the successors from the last one to the first
NeighborsReversed(n) ==
    IF HasEntry(n)
    THEN [j \in 1..Len(adj_list[n]) |-> adj_list[n][Len(adj_list[n]) + 1 - j]]
    ELSE <<>>

\* adj_list.at(start) where the key exists, the empty range where it does not
Neighbors(n) == IF HasEntry(n) THEN adj_list[n] ELSE <<>>

\* The objects the parameters path and visited of frame d+1 refer to: main's
\* locals for the outermost call, the caller's new_path/new_visited otherwise.
RefPath(d) == IF d = 0 THEN path ELSE stack[d].new_path
RefVisited(d) == IF d = 0 THEN visited ELSE stack[d].new_visited

\* find_paths without its revisit check
RevisitNever(start, v) == FALSE

\* visited.find(start) != visited.end()
Revisit(start, v) == start \in v

\* path declared once before the loop: it keeps what the last call left in it
StalePath == path

\* main declares path and visited inside its loop body: empty at every top-level call
FreshPath == <<>>
FreshVisited == {}

NewFrame(start) == [start |-> start, k |-> 1, new_path |-> <<>>, new_visited |-> {}]

\* find_paths without the line that clears the flag
DeactivateNot(ad, start) == ad

\* a call that clears every flag, not only the one of its node
DeactivateAll(ad, start) == [k \in DOMAIN ad \cup {start} |-> FALSE]

\* act_dep[start] = false (operator[] inserts a missing key)
Deactivate(ad, start) == (start :> FALSE) @@ ad

\* whether find_paths undoes its push before returning
Backtracks == impl = "main.cpp"

\* main's loop body when act_dep[node.first] holds: fresh path and visited,
\* then the call of find_paths up to its first recursive call or its return
CppDriverCall ==
    /\ pc = "loop" /\ impl # "main.c" /\ stack = <<>>
    /\ i <= Len(order)
    /\ act_dep[order[i]]
    /\ LET start == order[i]
       IN  /\ act_dep' = Deactivate(act_dep, start)
           /\ called' = called \cup {start}
           /\ roots' = Append(roots, [node |-> start, base |-> Len(all_paths)])
           /\ IF Revisit(start, FreshVisited)
                 THEN /\ path' = Append(FreshPath, start)
                      /\ visited' = FreshVisited
                      /\ all_paths' = Append(all_paths, Append(FreshPath, start))
                      /\ log' = log \o <<CallEvent(start, 1, FreshPath, FreshVisited),
                                          EmitEvent(1, Append(FreshPath, start))>>
                      /\ stack' = stack
                      /\ i' = i + 1
                 ELSE /\ path' = Append(FreshPath, start)
                      /\ visited' = FreshVisited \cup {start}
                      /\ all_paths' = all_paths
                      /\ log' = Append(log, CallEvent(start, 1, FreshPath, FreshVisited))
                      /\ stack' = <<NewFrame(start)>>
                      /\ i' = i
    /\ UNCHANGED <<inputVars, graph, pc, outVars>>

\* main's loop body when act_dep[node.first] is false
CppDriverSkip ==
    /\ pc = "loop" /\ impl # "main.c" /\ stack = <<>>
    /\ i <= Len(order)
    /\ ~act_dep[order[i]]
    /\ i' = i + 1
    /\ UNCHANGED <<inputVars, act_dep, graph, pc, path, visited,
                   stack, all_paths, roots, called, log, outVars>>

\* a visited set declared before the loop and filled again without being emptied
CopiedVisitedShared(d) ==
    IF stack[d].k = 1 THEN RefVisited(d - 1) ELSE RefVisited(d - 1) \cup stack[d].new_visited

\* no copy per iteration: every iteration pushes on the vector the last one used
CopiedPathNone(d) == IF stack[d].k = 1 THEN RefPath(d - 1) ELSE stack[d].new_path

\* new_path = path and new_visited = visited in the activation at depth d: the
\* copies are taken from the objects its own parameters refer to
CopiedPath(d) == RefPath(d - 1)
CopiedVisited(d) == RefVisited(d - 1)

\* one iteration of "for neighbor : adj_list.at(start)": the copies, then the
\* callee up to its first recursive call or its return
CppRecurse ==
    /\ pc = "loop" /\ impl # "main.c" /\ stack # <<>>
    /\ LET d  == Len(stack)
           f  == stack[d]
       IN  /\ f.k <= Len(Neighbors(f.start))
           /\ LET nb == Neighbors(f.start)[f.k]
                  np == CopiedPath(d)
                  nv == CopiedVisited(d)
              IN  /\ act_dep' = Deactivate(act_dep, nb)
                  /\ called' = called \cup {nb}
                  /\ IF Revisit(nb, nv)
                        THEN /\ all_paths' = Append(all_paths, Append(np, nb))
                             /\ log' = log \o <<CallEvent(nb, d + 1, np, nv),
                                                 EmitEvent(d + 1, Append(np, nb))>>
                             /\ stack' = [stack EXCEPT ![d] =
                                    [f EXCEPT !.new_path = Append(np, nb),
                                              !.new_visited = nv,
                                              !.k = f.k + 1]]
                        ELSE /\ d < MaxDepth
                             /\ all_paths' = all_paths
                             /\ log' = Append(log, CallEvent(nb, d + 1, np, nv))
                             /\ stack' = Append(
                                    [stack EXCEPT ![d] =
                                        [f EXCEPT !.new_path = Append(np, nb),
                                                  !.new_visited = nv \cup {nb}]],
                                    NewFrame(nb))
    /\ UNCHANGED <<inputVars, graph, i, pc, path, visited, roots, outVars>>

\* a leaf test that always succeeds
IsLeafAlways(n) == TRUE

\* adj_list.find(start) == adj_list.end()
IsLeaf(n) == ~HasEntry(n)

\* the end of find_paths after the loop: the leaf test, the backtracking of
\* main.cpp, and the return into the caller's loop
CppReturn ==
    /\ pc = "loop" /\ impl # "main.c" /\ stack # <<>>
    /\ LET d  == Len(stack)
           f  == stack[d]
           p  == RefPath(d - 1)
           v  == RefVisited(d - 1)
           p2 == IF Backtracks THEN SubSeq(p, 1, Len(p) - 1) ELSE p
           v2 == IF Backtracks THEN v \ {f.start} ELSE v
       IN  /\ f.k > Len(Neighbors(f.start))
           /\ all_paths' = IF IsLeaf(f.start) THEN Append(all_paths, p) ELSE all_paths
           /\ log' = IF IsLeaf(f.start) THEN Append(log, EmitEvent(d, p)) ELSE log
           /\ IF d = 1
                 THEN /\ path' = p2
                      /\ visited' = v2
                      /\ stack' = <<>>
                      /\ i' = i + 1
                 ELSE /\ path' = path
                      /\ visited' = visited
                      /\ stack' = [SubSeq(stack, 1, d - 1) EXCEPT ![d - 1] =
                             [@ EXCEPT !.new_path = p2, !.new_visited = v2, !.k = @ + 1]]
                      /\ i' = i
    /\ UNCHANGED <<inputVars, act_dep, graph, pc, roots, called, outVars>>

\* ------------------------------------------------------------------ C side
\* the left-hand sides in the order add_edge first meets them
RECURSIVE FirstSources(_)
FirstSources(es) ==
    IF es = <<>> THEN <<>>
    ELSE LET front == FirstSources(SubSeq(es, 1, Len(es) - 1))
             src   == es[Len(es)][1]
         IN  IF src \in Range(front) THEN front ELSE Append(front, src)

\* the table after every add_edge: only the sources have been given a slot
BuildGraph(es) ==
    LET fs == FirstSources(es)
    IN  [j \in 1..Len(fs) |->
            [name |-> fs[j], neighbors |-> Targets(es, fs[j]), active |-> TRUE]]

InGraph(g, name) == \E j \in 1..Len(g) : g[j].name = name

\* get_node: the slot of name, a new slot at the end when there is none
get_node_index(g, name) ==
    IF InGraph(g, name)
    THEN CHOOSE j \in 1..Len(g) :
            g[j].name = name /\ \A h \in 1..(j - 1) : g[h].name # name
    ELSE Len(g) + 1

\* a lookup that sets up the slot it returns even when the node is known
get_node_table_reinit(g, name) ==
    IF InGraph(g, name)
    THEN [g EXCEPT ![CHOOSE j \in 1..Len(g) : g[j].name = name] =
             [name |-> name, neighbors |-> <<>>, active |-> TRUE]]
    ELSE Append(g, [name |-> name, neighbors |-> <<>>, active |-> TRUE])

get_node_table(g, name) ==
    IF InGraph(g, name) THEN g
    ELSE Append(g, [name |-> name, neighbors |-> <<>>, active |-> TRUE])

\* a scan that starts at path[1] and so never looks at the root
is_visited_skip_first(buf, length, name) == \E j \in 2..length : buf[j] = name

\* a scan that stops one element early
is_visited_short(buf, length, name) == \E j \in 1..(length - 1) : buf[j] = name

\* is_visited(path, length, name): scans path[0..length-1]
is_visited(buf, length, name) == \E j \in 1..length : buf[j] = name

\* a write behind the old contents instead of at index length
WriteAtEnd(buf, pos, x) == Append(buf, x)

\* path[length] = x on a buffer whose old contents stay in place
WriteAt(buf, pos, x) == IF pos <= Len(buf) THEN [buf EXCEPT ![pos] = x] ELSE Append(buf, x)

\* the names for which is_visited(path, length, name) answers yes
CVisited(buf, length) == {n \in Range(buf) : is_visited(buf, length, n)}

\* what one call of the C find_paths adds to the history
CEvents(current, buf0, length, d, emitted) ==
    <<CallEvent(current, d, SubSeq(buf0, 1, length), CVisited(buf0, length))>>
    \o (IF emitted
        THEN <<EmitEvent(d, Append(SubSeq(buf0, 1, length), current))>>
        ELSE <<>>)

\* an activation that remembers the length without the element just written
CFrameShort(idx, length) == [node |-> idx, length |-> length - 1, k |-> 1]

CFrame(idx, length) == [node |-> idx, length |-> length, k |-> 1]

\* the flag cleared only further down, after the return for a node without successors
ClearActiveLate(g, idx) ==
    IF g[idx].neighbors = <<>> THEN g ELSE [g EXCEPT ![idx].active = FALSE]

\* node->active = 0
ClearActive(g, idx) == [g EXCEPT ![idx].active = FALSE]

\* a test for the end of a branch that never succeeds
HasNoNeighborsNever(g, idx) == FALSE

\* node->neighbor_count == 0
HasNoNeighbors(g, idx) == Len(g[idx].neighbors) = 0

\* The body of the C find_paths(current, path, length) up to its loop, on the
\* buffer contents buf0.  Gives the new table, buffer and result collection,
\* and whether it returned.
CEnter(current, buf0, length) ==
    LET idx  == get_node_index(graph, current)
        g1   == get_node_table(graph, current)
        g2   == ClearActive(g1, idx)
        buf  == WriteAt(buf0, length + 1, current)
        len  == length + 1
        emit == Append(all_paths, SubSeq(buf, 1, len))
    IN  IF is_visited(buf, len - 1, current)
        THEN [graph |-> g2, path |-> buf, all_paths |-> emit, returned |-> TRUE,
              frame |-> CFrame(idx, len)]
        ELSE IF HasNoNeighbors(g2, idx)
        THEN [graph |-> g2, path |-> buf, all_paths |-> emit, returned |-> TRUE,
              frame |-> CFrame(idx, len)]
        ELSE [graph |-> g2, path |-> buf, all_paths |-> all_paths, returned |-> FALSE,
              frame |-> CFrame(idx, len)]

\* main's loop body when graph[i].active: a fresh buffer and find_paths(name, path, 0)
CDriverCall ==
    /\ pc = "loop" /\ impl = "main.c" /\ stack = <<>>
    /\ i <= Len(graph)
    /\ graph[i].active
    /\ LET start == graph[i].name
           r     == CEnter(start, <<>>, 0)
       IN  /\ graph' = r.graph
           /\ path' = r.path
           /\ all_paths' = r.all_paths
           /\ stack' = IF r.returned THEN <<>> ELSE <<r.frame>>
           /\ i' = IF r.returned THEN i + 1 ELSE i
           /\ called' = called \cup {start}
           /\ log' = log \o CEvents(start, <<>>, 0, 1, r.all_paths # all_paths)
           /\ roots' = Append(roots, [node |-> start, base |-> Len(all_paths)])
    /\ UNCHANGED <<inputVars, act_dep, pc, visited, outVars>>

CDriverSkip ==
    /\ pc = "loop" /\ impl = "main.c" /\ stack = <<>>
    /\ i <= Len(graph)
    /\ ~graph[i].active
    /\ i' = i + 1
    /\ UNCHANGED <<inputVars, act_dep, graph, pc, path, visited, stack, all_paths,
                   roots, called, log, outVars>>

\* one iteration of "for i < node->neighbor_count": the callee up to its loop
CRecurse ==
    /\ pc = "loop" /\ impl = "main.c" /\ stack # <<>>
    /\ LET d == Len(stack)
           f == stack[d]
       IN  /\ f.k <= Len(graph[f.node].neighbors)
           /\ LET nb == graph[f.node].neighbors[f.k]
                  r  == CEnter(nb, path, f.length)
              IN  /\ graph' = r.graph
                  /\ path' = r.path
                  /\ all_paths' = r.all_paths
                  /\ called' = called \cup {nb}
                  /\ log' = log \o CEvents(nb, path, f.length, d + 1,
                                            r.all_paths # all_paths)
                  /\ IF r.returned
                        THEN stack' = [stack EXCEPT ![d].k = f.k + 1]
                        ELSE /\ d < MaxDepth
                             /\ stack' = Append(stack, r.frame)
    /\ UNCHANGED <<inputVars, act_dep, i, pc, visited, roots, outVars>>

\* the loop of find_paths is over: back into the caller's loop
CReturn ==
    /\ pc = "loop" /\ impl = "main.c" /\ stack # <<>>
    /\ LET d == Len(stack)
           f == stack[d]
       IN  /\ f.k > Len(graph[f.node].neighbors)
           /\ IF d = 1
                 THEN /\ stack' = <<>>
                      /\ i' = i + 1
                 ELSE /\ stack' = [SubSeq(stack, 1, d - 1) EXCEPT ![d - 1].k = @ + 1]
                      /\ i' = i
    /\ UNCHANGED <<inputVars, act_dep, graph, pc, path, visited, all_paths, roots,
                   called, log, outVars>>

\* ------------------------------------------------- classification, printing
Separator == " -> "

\* C++: every node followed by " -> ", then substr drops the last four characters
RenderCpp(p) ==
    LET str == [j \in 1..(2 * Len(p)) |-> IF j % 2 = 1 THEN p[(j + 1) \div 2] ELSE Separator]
    IN  SubSeq(str, 1, Len(str) - 1)

\* C: every node followed by " -> ", the last one by the newline ending the line
RenderC(p) ==
    [j \in 1..(2 * Len(p) - 1) |-> IF j % 2 = 1 THEN p[(j + 1) \div 2] ELSE Separator]

\* C++: the scan with unique_nodes; is_loop once a node is met again
RECURSIVE ScanLoop(_, _, _, _)
ScanLoop(p, j, unique_nodes, is_loop) ==
    IF j > Len(p) THEN is_loop
    ELSE ScanLoop(p, j + 1, unique_nodes \cup {p[j]},
                  IF p[j] \in unique_nodes THEN TRUE ELSE is_loop)

\* a test that only compares the two ends of the path
is_loop_first_last(p) == p[1] = p[Len(p)]

is_loop_scan(p) == ScanLoop(p, 1, {}, FALSE)

\* C: contains_loop compares every pair of positions
contains_loop(p) == \E a \in 1..Len(p) : \E b \in (a + 1)..Len(p) : p[a] = p[b]

\* a comparison with the last but one element
is_circular_loop_off(p) == Len(p) > 1 /\ p[1] = p[Len(p) - 1]

\* C: is_circular_loop
is_circular_loop(p) == Len(p) > 1 /\ p[1] = p[Len(p)]

\* a classifier that compares the first node with the second one
ClassifyCppSecond(p) ==
    IF is_loop_scan(p)
    THEN IF p[1] = p[2] THEN "is_loop" ELSE "contain_loop"
    ELSE "no_loop"

\* the branch the C++ classifier takes for a path
ClassifyCpp(p) ==
    IF is_loop_scan(p)
    THEN IF p[1] = p[Len(p)] THEN "is_loop" ELSE "contain_loop"
    ELSE "no_loop"

\* the two kinds of loop taken for each other
ClassifyCSwapped(p) ==
    LET loop     == contains_loop(p)
        circular == is_circular_loop(p)
    IN  IF ~loop THEN "no_loop" ELSE IF circular THEN "contain_loop" ELSE "is_loop"

\* the two flags the C loops compute for a path, named like the C++ branches
ClassifyC(p) ==
    LET loop     == contains_loop(p)
        circular == is_circular_loop(p)
    IN  IF ~loop THEN "no_loop" ELSE IF circular THEN "is_loop" ELSE "contain_loop"

CountLine == [kind |-> "count", n |-> Len(all_paths)]
HeaderLine(t) == [kind |-> "header", text |-> t]
PathLine(t) == [kind |-> "path", text |-> t]
Lines(ts) == [j \in 1..Len(ts) |-> PathLine(ts[j])]

\* the top-level loop is over: "Paths found: n" (and the first header in C)
DriverDone ==
    /\ pc = "loop" /\ stack = <<>>
    /\ i > (IF impl = "main.c" THEN Len(graph) ELSE Len(order))
    /\ pc' = "classify"
    /\ ci' = 1
    /\ printed' = IF impl = "main.c"
                  THEN <<CountLine, HeaderLine("No circular dependency:")>>
                  ELSE <<CountLine>>
    /\ UNCHANGED <<inputVars, act_dep, graph, i, path, visited, stack, all_paths,
                   roots, called, log, no_loop_paths, is_loop_paths, contain_loop_paths,
                   verdicts>>

\* C++: one iteration of "for path : all_paths"
CppClassify ==
    /\ pc = "classify" /\ impl # "main.c"
    /\ ci <= Len(all_paths)
    /\ LET p   == all_paths[ci]
           out == RenderCpp(p)
           c   == ClassifyCpp(p)
       IN  /\ no_loop_paths' = IF c = "no_loop" THEN Append(no_loop_paths, out)
                                ELSE no_loop_paths
           /\ is_loop_paths' = IF c = "is_loop" THEN Append(is_loop_paths, out)
                                ELSE is_loop_paths
           /\ contain_loop_paths' = IF c = "contain_loop"
                                     THEN Append(contain_loop_paths, out)
                                     ELSE contain_loop_paths
           /\ verdicts' = Append(verdicts, c)
    /\ ci' = ci + 1
    /\ UNCHANGED <<inputVars, act_dep, graph, i, pc, path, visited, stack, all_paths,
                   roots, called, log, printed>>

\* C++: the three printing loops under their two headers
CppPrint ==
    /\ pc = "classify" /\ impl # "main.c"
    /\ ci > Len(all_paths)
    /\ printed' = printed \o <<HeaderLine("No circular dependency")>>
                          \o Lines(no_loop_paths)
                          \o <<HeaderLine("Circular dependeny detected:")>>
                          \o Lines(is_loop_paths)
                          \o Lines(contain_loop_paths)
    /\ pc' = "done"
    /\ UNCHANGED <<inputVars, act_dep, graph, i, path, visited, stack, all_paths,
                   roots, called, log, ci, no_loop_paths, is_loop_paths,
                   contain_loop_paths, verdicts>>

\* C: one iteration of the first printing loop (paths without a loop)
CPrintNoLoop ==
    /\ pc = "classify" /\ impl = "main.c"
    /\ ci <= Len(all_paths)
    /\ LET p == all_paths[ci]
       IN  /\ printed' = IF ~contains_loop(p) THEN Append(printed, PathLine(RenderC(p)))
                          ELSE printed
           /\ verdicts' = Append(verdicts, ClassifyC(p))
    /\ ci' = ci + 1
    /\ UNCHANGED <<inputVars, act_dep, graph, i, pc, path, visited, stack, all_paths,
                   roots, called, log, no_loop_paths, is_loop_paths, contain_loop_paths>>

\* C: between the two loops, the second header
CPrintHeader ==
    /\ pc = "classify" /\ impl = "main.c"
    /\ ci > Len(all_paths)
    /\ printed' = Append(printed, HeaderLine("Circular dependency detected:"))
    /\ pc' = "classify2"
    /\ ci' = 1
    /\ UNCHANGED <<inputVars, act_dep, graph, i, path, visited, stack, all_paths,
                   roots, called, log, no_loop_paths, is_loop_paths, contain_loop_paths,
                   verdicts>>

\* C: one iteration of the second printing loop (paths with a loop)
CPrintLoop ==
    /\ pc = "classify2" /\ impl = "main.c"
    /\ ci <= Len(all_paths)
    /\ LET p == all_paths[ci]
       IN  printed' = IF contains_loop(p) THEN Append(printed, PathLine(RenderC(p)))
                      ELSE printed
    /\ ci' = ci + 1
    /\ UNCHANGED <<inputVars, act_dep, graph, i, pc, path, visited, stack, all_paths,
                   roots, called, log, no_loop_paths, is_loop_paths, contain_loop_paths,
                   verdicts>>

CFinish ==
    /\ pc = "classify2" /\ impl = "main.c"
    /\ ci > Len(all_paths)
    /\ pc' = "done"
    /\ UNCHANGED <<inputVars, act_dep, graph, i, path, visited, stack, all_paths,
                   roots, called, log, outVars>>

\* ------------------------------------------------------------ specification
Init ==
    /\ edges \in EdgeLists
    /\ impl \in Impls
    /\ adj_list = IF impl = "main.c" THEN <<>> ELSE BuildAdjList(edges)
    /\ act_dep = [k \in DOMAIN adj_list |-> TRUE]
    /\ order \in Perms(DOMAIN adj_list)
    /\ graph = IF impl = "main.c" THEN BuildGraph(edges) ELSE <<>>
    /\ i = 1
    /\ pc = "loop"
    /\ path = <<>>
    /\ visited = {}
    /\ stack = <<>>
    /\ all_paths = <<>>
    /\ roots = <<>>
    /\ called = {}
    /\ log = <<>>
    /\ ci = 1
    /\ no_loop_paths = <<>>
    /\ is_loop_paths = <<>>
    /\ contain_loop_paths = <<>>
    /\ verdicts = <<>>
    /\ printed = <<>>
    /\ run = 1
    /\ prev = <<>>

Next ==
    \/ CppDriverCall
    \/ CppDriverSkip
    \/ CppRecurse
    \/ CppReturn
    \/ CDriverCall
    \/ CDriverSkip
    \/ CRecurse
    \/ CReturn
    \/ DriverDone
    \/ CppClassify
    \/ CppPrint
    \/ CPrintNoLoop
    \/ CPrintHeader
    \/ CPrintLoop
    \/ CFinish

Spec == Init /\ [][Next]_vars

\* the programs are sequential and never wait: a step that can be taken is taken
FairSpec == Spec /\ WF_vars(Next)

\* the collection s as a bag: how often each element occurs
BagOf(s) == [x \in Range(s) |-> Cardinality({j \in 1..Len(s) : s[j] = x})]

\* a total order on the key orders, by the input position of the keys
KeyRank(n) == CHOOSE j \in 1..Len(FirstSources(edges)) : FirstSources(edges)[j] = n

LexLess(o1, o2) ==
    \E j \in 1..Len(o1) :
        /\ \A h \in 1..(j - 1) : o1[h] = o2[h]
        /\ KeyRank(o1[j]) < KeyRank(o2[j])

\* A second run of a C++ program on the same input, with the hash map
\* yielding its keys in a different order.  Every pair of different orders
\* is compared once: the first run has the smaller of the two.  Of the first
\* run prev keeps the key it began with, its set of roots and its results as
\* a bag.
Restart ==
    /\ pc = "done" /\ run = 1 /\ impl # "main.c"
    /\ order' \in {o \in Perms(DOMAIN adj_list) : LexLess(order, o)}
    /\ prev' = [first |-> order[1], rootNodes |-> {roots[r].node : r \in 1..Len(roots)},
                bag |-> BagOf(all_paths)]
    /\ run' = 2
    /\ act_dep' = [k \in DOMAIN adj_list |-> TRUE]
    /\ i' = 1
    /\ pc' = "loop"
    /\ path' = <<>>
    /\ visited' = {}
    /\ stack' = <<>>
    /\ all_paths' = <<>>
    /\ roots' = <<>>
    /\ called' = {}
    /\ log' = <<>>
    /\ ci' = 1
    /\ no_loop_paths' = <<>>
    /\ is_loop_paths' = <<>>
    /\ contain_loop_paths' = <<>>
    /\ verdicts' = <<>>
    /\ printed' = <<>>
    /\ UNCHANGED <<edges, impl, adj_list, graph>>

NextTwoRuns == Next \/ Restart

SpecTwoRuns == Init /\ [][NextTwoRuns]_vars

\* the nodes whose activation flag is cleared
Inactive ==
    IF impl = "main.c"
    THEN {graph[j].name : j \in {h \in 1..Len(graph) : ~graph[h].active}}
    ELSE {n \in DOMAIN act_dep : ~act_dep[n]}

ImplRank(m) == IF m = "main.c" THEN 1 ELSE IF m = "part_000" THEN 2 ELSE 3

\* The same input given to another of the three programs once the first has
\* ended.  A C++ program that follows the C program gets its keys in the order
\* of the C table, one that follows the other C++ program in the same order
\* as that one, so that both runs make their top-level calls on the same nodes.
Switch ==
    /\ pc = "done" /\ run = 1
    /\ prev' = [impl |-> impl, roots |-> roots, all_paths |-> all_paths,
                inactive |-> Inactive, log |-> log, verdicts |-> verdicts]
    /\ run' = 2
    /\ impl' \in {m \in Impls : ImplRank(m) > ImplRank(impl)}
    /\ order' = IF impl = "main.c" THEN FirstSources(edges) ELSE order
    /\ adj_list' = BuildAdjList(edges)
    /\ act_dep' = [k \in DOMAIN BuildAdjList(edges) |-> TRUE]
    /\ graph' = <<>>
    /\ i' = 1
    /\ pc' = "loop"
    /\ path' = <<>>
    /\ visited' = {}
    /\ stack' = <<>>
    /\ all_paths' = <<>>
    /\ roots' = <<>>
    /\ called' = {}
    /\ log' = <<>>
    /\ ci' = 1
    /\ no_loop_paths' = <<>>
    /\ is_loop_paths' = <<>>
    /\ contain_loop_paths' = <<>>
    /\ verdicts' = <<>>
    /\ printed' = <<>>
    /\ UNCHANGED edges

NextTwoImpls == Next \/ Switch

SpecTwoImpls == Init /\ [][NextTwoImpls]_vars

\* ------------------------------------------------------- the fixed buffers
\* main.c sizes its buffers with three constants of the same value, 100.  The
\* model keeps their relations (MAX_PATH_LEN = MAX_NEIGHBORS = MAX_NODES, and
\* MAX_NODES * MAX_NODES slots for the results) at a value that inputs of a few
\* edges can reach.  The sequences of the model have no capacity: a write past
\* the end of a buffer shows as a length above the capacity.
MAX_NODES == 3
MAX_NEIGHBORS == 3
MAX_PATH_LEN == 3

\* char** all_paths[MAX_NODES * MAX_NODES]
AllPathsCapacity == MAX_NODES * MAX_NODES

\* MAX_NEIGHBORS edges from A to itself, then MAX_NEIGHBORS edges from B to A
Fan == [j \in 1..(2 * MAX_NEIGHBORS) |->
            IF j <= MAX_NEIGHBORS THEN <<"A", "A">> ELSE <<"B", "A">>]

\* no add_edge writes behind neighbors[MAX_NEIGHBORS - 1]
FitsNeighbors(es) ==
    \A n \in Range(Flat(es)) :
        Cardinality({j \in 1..Len(es) : es[j][1] = n}) <= MAX_NEIGHBORS

\* main.c on the inputs of Spec and on Fan
InitBuffers ==
    /\ edges \in EdgeLists \cup {Fan}
    /\ impl = "main.c"
    /\ adj_list = <<>>
    /\ act_dep = <<>>
    /\ order = <<>>
    /\ graph = BuildGraph(edges)
    /\ i = 1
    /\ pc = "loop"
    /\ path = <<>>
    /\ visited = {}
    /\ stack = <<>>
    /\ all_paths = <<>>
    /\ roots = <<>>
    /\ called = {}
    /\ log = <<>>
    /\ ci = 1
    /\ no_loop_paths = <<>>
    /\ is_loop_paths = <<>>
    /\ contain_loop_paths = <<>>
    /\ verdicts = <<>>
    /\ printed = <<>>
    /\ run = 1
    /\ prev = <<>>

NextBuffers ==
    \/ CDriverCall
    \/ CDriverSkip
    \/ CRecurse
    \/ CReturn
    \/ DriverDone

SpecBuffers == InitBuffers /\ [][NextBuffers]_vars

\* ------------------------------------------------- the input seen as a graph
EdgeSet == Range(edges)
GraphNodes == Range(Flat(edges))
SuccSet(u) == {e[2] : e \in {x \in EdgeSet : x[1] = u}}
IsSink(n) == n \notin Sources(edges)

Simple(w) == \A a, b \in 1..Len(w) : a # b => w[a] # w[b]
NoRepeat(p) == Simple(p)

\* nodes reachable from the set S in at most n further edges
RECURSIVE ReachWithin(_, _)
ReachWithin(S, n) ==
    IF n = 0 THEN S ELSE ReachWithin(S \cup UNION {SuccSet(x) : x \in S}, n - 1)

\* nodes reachable from u along at least one edge
Reachable(u) == ReachWithin(SuccSet(u), Cardinality(GraphNodes))

HasCycle == \E u \in GraphNodes : u \in Reachable(u)

\* every walk w.v with w in W without repetition and (last of w, v) an edge
Extend(W) ==
    UNION {{Append(w, v) : v \in SuccSet(Last(w))} : w \in {x \in W : Simple(x)}}

RECURSIVE WalksWithin(_, _)
WalksWithin(W, n) == IF n = 0 THEN W ELSE W \cup WalksWithin(Extend(W), n - 1)

\* all walks from start whose elements before the last are pairwise distinct
Walks(start) == WalksWithin({<<start>>}, Cardinality(GraphNodes))

\* the claim's own description of a maximal simple walk v0..vn from start
IsMaximalSimpleWalk(w, start) ==
    /\ Len(w) >= 1 /\ w[1] = start
    /\ \A a \in 1..(Len(w) - 1) : <<w[a], w[a + 1]>> \in EdgeSet
    /\ Simple(SubSeq(w, 1, Len(w) - 1))
    /\ LET before == Range(SubSeq(w, 1, Len(w) - 1))
       IN  \/ IsSink(Last(w)) /\ Last(w) \notin before
           \/ Last(w) \in before

MaximalSimpleWalks(start) == {w \in Walks(start) : IsMaximalSimpleWalk(w, start)}

\* simple directed cycles, each written as a closed walk c0 .. c(k-1) c0
SimpleCycles ==
    {w \in UNION {Walks(n) : n \in Sources(edges)} : Len(w) > 1 /\ Last(w) = w[1]}

FirstIndex(p, x) == CHOOSE j \in 1..Len(p) : p[j] = x /\ \A h \in 1..(j - 1) : p[h] # x

\* the part of a path from the first occurrence of its last node to its end
LoopSegment(p) == SubSeq(p, FirstIndex(p, Last(p)), Len(p))

\* s and c are closed walks round the same cycle, started at different nodes
IsRotation(s, c) ==
    /\ Len(s) = Len(c)
    /\ LET L == Len(c) - 1
       IN  \E r \in 0..(L - 1) : \A t \in 1..Len(c) : s[t] = c[((t - 1 + r) % L) + 1]

\* ------------------------------------------------------- views of the state
Done == pc = "done"
RootNodes == {roots[r].node : r \in 1..Len(roots)}
Emitted == Range(all_paths)

\* the order in which the top-level loop considers the nodes
DriverOrder == IF impl = "main.c" THEN [j \in 1..Len(graph) |-> graph[j].name] ELSE order

\* the activation flag of n, where it has one
IsActive(n) ==
    IF impl = "main.c"
    THEN \E j \in 1..Len(graph) : graph[j].name = n /\ graph[j].active
    ELSE n \in DOMAIN act_dep /\ act_dep[n]

\* the paths the r-th top-level enumeration emitted (it has returned)
RootPaths(r) ==
    LET from == roots[r].base + 1
        to   == IF r < Len(roots) THEN roots[r + 1].base ELSE Len(all_paths)
    IN  {all_paths[j] : j \in from..to}

IsCircularHeader(l) ==
    l.kind = "header"
    /\ l.text \in {"Circular dependeny detected:", "Circular dependency detected:"}

\* the lines printed under the heading for circular dependencies
CircularSection ==
    IF \E j \in 1..Len(printed) : IsCircularHeader(printed[j])
    THEN LET h == CHOOSE j \in 1..Len(printed) : IsCircularHeader(printed[j])
         IN  SubSeq(printed, h + 1, Len(printed))
    ELSE <<>>

\* =================================================================== claims

\* C1: for every finite input, cyclic or not, self-loops included, every call
\* of find_paths returns and the whole run of the top-level driver ends.
C1_Terminates == <>(pc = "done")

C1_Witness ==
    /\ Done
    /\ \E e \in EdgeSet : e[1] = e[2]
    /\ \E c \in SimpleCycles : Len(c) >= 3

\* C2: after a whole run some emitted path repeats a node, and a path is listed
\* under the heading for circular dependencies, exactly when the input graph
\* has a directed cycle; this holds for every order of the top-level loop, so
\* the verdict depends on the input alone.
C2_CycleVerdict ==
    Done => /\ (\E p \in Emitted : ~NoRepeat(p)) <=> HasCycle
            /\ (CircularSection # <<>>) <=> HasCycle

C2_Witness ==
    /\ Done /\ HasCycle
    /\ \E p \in Emitted : NoRepeat(p)
    /\ Len(roots) >= 2

\* C3: after a whole run, for every simple directed cycle of the input some
\* emitted path ends by going round exactly that cycle: its part from the first
\* occurrence of its last node to its end is the cycle, started at some node of it.
C3_AllCyclesFound ==
    Done => \A c \in SimpleCycles : \E p \in Emitted : IsRotation(LoopSegment(p), c)

C3_Witness ==
    /\ Done
    /\ \E c \in SimpleCycles :
          /\ Len(c) >= 3
          /\ c[1] \notin RootNodes
          /\ \A p \in Emitted : LoopSegment(p) # c
    /\ \E c, e \in SimpleCycles : Range(c) # Range(e)

\* C4: a top-level call find_paths(start) with empty path and visited emits
\* exactly the maximal simple walks from start: none is missing, nothing else
\* is emitted.
C4_ExactlyMaximalWalks ==
    Done => \A r \in 1..Len(roots) : RootPaths(r) = MaximalSimpleWalks(roots[r].node)

C4_Witness ==
    /\ Done
    /\ \E r \in 1..Len(roots) :
          /\ \E p \in RootPaths(r) : NoRepeat(p)
          /\ \E p \in RootPaths(r) : ~NoRepeat(p) /\ p[1] # Last(p)
          /\ \E p \in RootPaths(r) : Len(p) >= 3

\* C5: once find_paths has been called on a node X, in whatever role, the
\* top-level driver never afterwards starts an enumeration at X; so no node is
\* the root of two top-level enumerations.
C5_EntryPointSuppression ==
    [][Len(roots') > Len(roots) =>
          /\ Last(roots').node \notin called
          /\ Last(roots').node \notin RootNodes]_vars

C5_Witness ==
    /\ Done
    /\ \E k \in Sources(edges) : k \in called /\ k \notin RootNodes
    /\ Len(roots) >= 2

\* the position at which the top-level loop considers node n
Pos(n) == CHOOSE j \in 1..Len(DriverOrder) : DriverOrder[j] = n
Before(x, y) == Pos(x) < Pos(y)

F3Path == <<"F3", "A1", "B1", "C1">>
D3Path == <<"D3", "G3">>

ScenarioCRoots ==
    /\ \E r \in 1..Len(roots) : roots[r].node = "F3" /\ F3Path \in RootPaths(r)
    /\ \E r \in 1..Len(roots) : roots[r].node = "D3" /\ D3Path \in RootPaths(r)

\* C6 as claimed: in scenario C the enumerations rooted at F3 and D3 emit
\* F3 -> A1 -> B1 -> C1 and D3 -> G3, and A1 and B1 are never top-level roots.
C6_Original ==
    (Done /\ edges = ScenarioC) =>
        /\ ScenarioCRoots
        /\ "A1" \notin RootNodes /\ "B1" \notin RootNodes
        /\ \A p \in Emitted : p[1] \notin {"A1", "B1"}

\* C6 as amended: in scenario C the enumerations rooted at F3 and D3 emit
\* F3 -> A1 -> B1 -> C1 and D3 -> G3; A1 is a top-level root exactly when the
\* driver considers it before F3, and B1 exactly when the driver considers it
\* before both A1 and F3 (never in main.c, whose table starts with F3);
\* a path starts with A1 or B1 only when that node was a root.
C6_ScenarioC ==
    (Done /\ edges = ScenarioC) =>
        /\ ScenarioCRoots
        /\ "A1" \in RootNodes <=> Before("A1", "F3")
        /\ "B1" \in RootNodes <=> (Before("B1", "A1") /\ Before("B1", "F3"))
        /\ \A p \in Emitted : p[1] \in RootNodes
        /\ impl = "main.c" => RootNodes = {"F3", "D3"}

C6_Witness ==
    /\ Done /\ edges = ScenarioC
    /\ RootNodes = {"F3", "D3"}
    /\ impl # "main.c"
    /\ Before("A1", "D3")

ScenarioACycles == {<<"A", "B", "C", "A">>, <<"B", "C", "A", "B">>, <<"C", "A", "B", "C">>}

\* what the classification made of a run with the single path p, a loop back to its start
OnlySelfReturning(p) ==
    /\ all_paths = <<p>>
    /\ verdicts = <<"is_loop">>
    /\ Len(CircularSection) = 1
    /\ \A j \in 1..Len(printed) :
          printed[j].kind = "path" => IsCircularHeader(printed[j - 1])
    /\ impl # "main.c" =>
          /\ no_loop_paths = <<>>
          /\ contain_loop_paths = <<>>
          /\ is_loop_paths = <<RenderCpp(p)>>

\* C7 as claimed: in scenario A the run emits exactly one path, A -> B -> C -> A,
\* classified self-returning loop, and no acyclic or interior-loop path.
C7_Original ==
    (Done /\ edges = ScenarioA) => OnlySelfReturning(<<"A", "B", "C", "A">>)

\* C7 as amended: in scenario A the run emits exactly one path, the cycle written
\* from the node the driver considers first (A -> B -> C -> A when that is A, as
\* always in main.c), classified self-returning loop, and no other path.
C7_ScenarioA ==
    (Done /\ edges = ScenarioA) =>
        /\ \E c \in ScenarioACycles : c[1] = DriverOrder[1] /\ OnlySelfReturning(c)
        /\ impl = "main.c" => all_paths = << <<"A", "B", "C", "A">> >>

C7_Witness ==
    /\ Done /\ edges = ScenarioA
    /\ all_paths = << <<"B", "C", "A", "B">> >>

PrevRootNodes == prev.rootNodes

\* C8 as claimed: two runs on the same edge list that differ only in the order
\* of the top-level loop produce the same set of paths.
C8_Original ==
    (Done /\ run = 2) => Range(all_paths) = DOMAIN prev.bag

\* C8 as amended: the collection of paths depends on the order of the top-level
\* loop only through the set of nodes that become top-level roots: two runs on
\* the same edge list produce the same collection of paths, possibly in a
\* different order, exactly when they enumerate the same set of roots.
C8_SameRootsSamePaths ==
    (Done /\ run = 2) =>
        (RootNodes = PrevRootNodes <=> BagOf(all_paths) = prev.bag)

C8_Witness ==
    /\ Done /\ run = 2
    /\ order[1] # prev.first
    /\ RootNodes = PrevRootNodes
    /\ Len(all_paths) >= 2
    /\ Len(roots) >= 2

RootCount(k) == Cardinality({r \in 1..Len(roots) : roots[r].node = k})

\* node k occurs in a path of an enumeration started before the driver reached k
VisitedEarlier(k) ==
    \E r \in 1..Len(roots) :
        /\ Before(roots[r].node, k)
        /\ \E p \in RootPaths(r) : k \in Range(p)

\* C9 as claimed: every node that is the source of an edge is the root of
\* exactly one top-level enumeration.
C9_Original ==
    Done => \A k \in Sources(edges) : RootCount(k) = 1

\* C9 as amended: every node that is the source of an edge is the root of at
\* most one top-level enumeration: of exactly one when no enumeration started
\* before the driver considers it has visited it, and of none otherwise; and
\* only sources are roots.
C9_RootsOnceUnlessVisited ==
    Done => /\ \A k \in Sources(edges) :
                  /\ RootCount(k) <= 1
                  /\ RootCount(k) = 1 <=> ~VisitedEarlier(k)
            /\ RootNodes \subseteq Sources(edges)

C9_Witness ==
    /\ Done
    /\ \E k \in Sources(edges) : RootCount(k) = 0
    /\ Len(roots) >= 2

Categories == {"no_loop", "is_loop", "contain_loop"}

PathLines == SelectSeq(printed, LAMBDA l : l.kind = "path")

\* the lines between the two headings of the C output
AcyclicSection ==
    LET h == CHOOSE j \in 1..Len(printed) : IsCircularHeader(printed[j])
    IN  SelectSeq(SubSeq(printed, 1, h - 1), LAMBDA l : l.kind = "path")

\* C10: every emitted path gets exactly one of the three categories, and it is
\* the acyclic one exactly when no identifier occurs twice in the path.  In
\* C++ every path lands in exactly one of the three lists; in C, which
\* classifies every path once per printing loop, both loops agree, so every
\* path is printed in exactly one section.
C10_Classification ==
    Done =>
        /\ Len(verdicts) = Len(all_paths)
        /\ \A j \in 1..Len(all_paths) :
              /\ verdicts[j] \in Categories
              /\ verdicts[j] = "no_loop" <=> NoRepeat(all_paths[j])
        /\ impl # "main.c" =>
              /\ Len(no_loop_paths) + Len(is_loop_paths) + Len(contain_loop_paths)
                    = Len(all_paths)
              /\ \A j \in 1..Len(all_paths) :
                    LET out == RenderCpp(all_paths[j])
                    IN  /\ out \in Range(no_loop_paths) <=> verdicts[j] = "no_loop"
                        /\ out \in Range(is_loop_paths) <=> verdicts[j] = "is_loop"
                        /\ out \in Range(contain_loop_paths)
                              <=> verdicts[j] = "contain_loop"
        /\ impl = "main.c" =>
              /\ Len(PathLines) = Len(all_paths)
              /\ \A j \in 1..Len(all_paths) :
                    LET line == PathLine(RenderC(all_paths[j]))
                    IN  /\ line \in Range(AcyclicSection) <=> verdicts[j] = "no_loop"
                        /\ line \in Range(CircularSection) <=> verdicts[j] # "no_loop"

C10_Witness ==
    /\ Done
    /\ Range(verdicts) = Categories

\* C11: an emitted path is classified self-returning loop exactly when its last
\* element equals its first element: in C++ it is then the path's rendering
\* that lands in is_loop_paths, in C both flags loop and circular are set.
C11_SelfReturningIffFirstLast ==
    Done => \A j \in 1..Len(all_paths) :
                LET p == all_paths[j]
                IN  /\ verdicts[j] = "is_loop" <=> Last(p) = p[1]
                    /\ impl # "main.c" =>
                          (RenderCpp(p) \in Range(is_loop_paths) <=> Last(p) = p[1])
                    /\ impl = "main.c" =>
                          ((contains_loop(p) /\ is_circular_loop(p)) <=> Last(p) = p[1])

C11_Witness ==
    /\ Done /\ impl # "main.c"
    /\ \E j \in 1..Len(all_paths) : verdicts[j] = "is_loop" /\ Len(all_paths[j]) >= 3
    /\ \E j \in 1..Len(all_paths) : verdicts[j] = "contain_loop"

\* the category of a path, from its shape alone
ShapeOf(p) ==
    IF NoRepeat(p) THEN "no_loop" ELSE IF Last(p) = p[1] THEN "is_loop" ELSE "contain_loop"

\* the emitted paths of shape c, in emission order
PathsOfShape(c) == SelectSeq(all_paths, LAMBDA p : ShapeOf(p) = c)

\* a path as the running program writes it on a line
Rendered(p) == IF impl = "main.c" THEN RenderC(p) ELSE RenderCpp(p)

\* the texts of the path lines of the output, top to bottom
PrintedTexts == [j \in 1..Len(PathLines) |-> PathLines[j].text]

ExpectedTexts ==
    LET ps == PathsOfShape("no_loop") \o PathsOfShape("is_loop")
                  \o PathsOfShape("contain_loop")
    IN  [j \in 1..Len(ps) |-> Rendered(ps[j])]

\* C12: the output lists all acyclic paths first, then all self-returning loop
\* paths, then all contains-interior-loop paths, each category in the order in
\* which the traversal emitted its paths.
C12_DisplayOrder == Done => PrintedTexts = ExpectedTexts

\* the same for the two C++ programs only
C12_CppDisplayOrder == (Done /\ impl # "main.c") => PrintedTexts = ExpectedTexts

\* ---------------------------------------------------- the history as a call tree
IsCall(a) == log[a].op = "call"
IsEmit(a) == log[a].op = "emit"

\* the call at position a is one that finds its node already on the branch
IsRevisitCall(a) == IsCall(a) /\ log[a].node \in log[a].visited

\* event c happens inside the activation the call at position a began
Inside(a, c) ==
    \/ log[c].depth > log[a].depth
    \/ IsEmit(c) /\ log[c].depth = log[a].depth

\* the last event of the activation that the call at position a began
Extent(a) ==
    CHOOSE b \in a..Len(log) :
        /\ \A c \in (a + 1)..b : Inside(a, c)
        /\ b = Len(log) \/ ~Inside(a, b + 1)

\* the recursive calls that the activation begun at position a made itself
ChildCalls(a) ==
    SelectSeq(SubSeq(log, a + 1, Extent(a)),
              LAMBDA e : e.op = "call" /\ e.depth = log[a].depth + 1)

\* the paths that the activation begun at position a stored itself
OwnEmits(a) ==
    SelectSeq(SubSeq(log, a + 1, Extent(a)),
              LAMBDA e : e.op = "emit" /\ e.depth = log[a].depth)

NodesOf(evs) == [j \in 1..Len(evs) |-> evs[j].node]

\* C13: a call of find_paths on a node that is not yet on the branch and whose
\* adjacency entry has k successor entries makes exactly k recursive calls, one
\* per entry, and stores no path itself; so for the edges A->B, A->C the
\* run emits exactly the two acyclic paths A -> B and A -> C.
C13_BranchingComplete ==
    Done =>
        /\ \A a \in 1..Len(log) :
              (IsCall(a) /\ ~IsRevisitCall(a) /\ ~IsSink(log[a].node)) =>
                  /\ NodesOf(ChildCalls(a)) = Targets(edges, log[a].node)
                  /\ OwnEmits(a) = <<>>
        /\ edges = ScenarioD =>
              /\ Len(all_paths) = 2
              /\ Range(all_paths) = {<<"A", "B">>, <<"A", "C">>}
              /\ Range(verdicts) = {"no_loop"}

C13_Witness ==
    /\ Done
    /\ \E a \in 1..Len(log) :
          /\ IsCall(a) /\ ~IsRevisitCall(a)
          /\ log[a].depth >= 2
          /\ Len(ChildCalls(a)) >= 2
          /\ \E j \in 1..Len(ChildCalls(a)) : ~IsSink(ChildCalls(a)[j].node)

\* C14: a call of find_paths on a node that is not yet on the branch and has no
\* adjacency entry stores exactly one path, the branch path ending at that
\* node, and makes no recursive call; an emitted path is acyclic exactly when
\* its last element is a sink; so for the single edge D->E the run emits
\* exactly one path, D -> E, classified acyclic.
C14_SinkTermination ==
    Done =>
        /\ \A a \in 1..Len(log) :
              (IsCall(a) /\ ~IsRevisitCall(a) /\ IsSink(log[a].node)) =>
                  /\ ChildCalls(a) = <<>>
                  /\ Len(OwnEmits(a)) = 1
                  /\ OwnEmits(a)[1].path = Append(log[a].path, log[a].node)
        /\ \A p \in Emitted : NoRepeat(p) <=> IsSink(Last(p))
        /\ edges = ScenarioB =>
              /\ all_paths = << <<"D", "E">> >>
              /\ verdicts = <<"no_loop">>

C14_Witness ==
    /\ Done
    /\ \E a \in 1..Len(log) :
          /\ IsCall(a) /\ ~IsRevisitCall(a) /\ IsSink(log[a].node)
          /\ log[a].depth >= 3
    /\ \E p \in Emitted : ~NoRepeat(p)

\* how often the edge u -> v occurs in the input
Mult(u, v) == Cardinality({j \in 1..Len(edges) : edges[j] = <<u, v>>})

\* the product of the multiplicities of the edges of p from position j on
RECURSIVE EdgeProduct(_, _)
EdgeProduct(p, j) ==
    IF j >= Len(p) THEN 1 ELSE Mult(p[j], p[j + 1]) * EdgeProduct(p, j + 1)

RECURSIVE SumProducts(_)
SumProducts(S) ==
    IF S = {} THEN 0
    ELSE LET x == CHOOSE y \in S : TRUE
         IN  EdgeProduct(x, 1) + SumProducts(S \ {x})

\* how often p occurs in the result collection
Copies(p) == Cardinality({j \in 1..Len(all_paths) : all_paths[j] = p})

\* the successor entries the running program holds for the source u
SuccessorEntries(u) ==
    IF impl = "main.c" THEN graph[get_node_index(graph, u)].neighbors ELSE adj_list[u]

\* C15: duplicate identical edges stay as duplicate successor entries and results
\* are never deduplicated: every emitted walk occurs in the result collection
\* once per combination of parallel edges along it, that is as often as the
\* product of the multiplicities of its edges, and the reported path count
\* counts every copy.
C15_NoDeduplication ==
    Done =>
        /\ \A u \in Sources(edges) : \A v \in GraphNodes :
              Cardinality({j \in 1..Len(SuccessorEntries(u)) :
                              SuccessorEntries(u)[j] = v}) = Mult(u, v)
        /\ \A p \in Emitted : Copies(p) = EdgeProduct(p, 1)
        /\ printed[1] = [kind |-> "count", n |-> SumProducts(Emitted)]
        /\ Len(PathLines) = SumProducts(Emitted)

C15_Witness ==
    /\ Done
    /\ \E p \in Emitted : Copies(p) >= 2 /\ Len(p) >= 3
    /\ \E p \in Emitted : ~NoRepeat(p)

\* what the programs print when there is nothing to report
EmptyReport ==
    /\ Len(printed) = 3
    /\ printed[1] = [kind |-> "count", n |-> 0]
    /\ printed[2].kind = "header" /\ ~IsCircularHeader(printed[2])
    /\ IsCircularHeader(printed[3])
    /\ no_loop_paths = <<>> /\ is_loop_paths = <<>> /\ contain_loop_paths = <<>>
    /\ verdicts = <<>>

\* C16: with an empty edge sequence the run never calls find_paths and never
\* stores a path, and it ends normally with the report of zero paths: the
\* count 0 and the two headings with no path under either.
C16_EmptyInput ==
    /\ [](edges = <<>> => (roots = <<>> /\ log = <<>> /\ all_paths = <<>>))
    /\ (edges = <<>>) ~> (Done /\ EmptyReport)

C16_Witness == Done /\ edges = <<>> /\ EmptyReport /\ impl = "part_000"

\* how often x occurs in p
Occurrences(p, x) == Cardinality({j \in 1..Len(p) : p[j] = x})

\* the identifiers that occur more than once in p
Repeated(p) == {x \in Range(p) : Occurrences(p, x) >= 2}

\* C17: in every emitted path all elements except the last are pairwise
\* distinct: at most one identifier is repeated, it occurs exactly twice and its
\* second occurrence is the last position; and a call that finds its node
\* already on the branch stores the path and makes no recursive call, so the
\* successors of the revisited node are not explored on that branch.
C17_RevisitedNodeIsLast ==
    /\ \A p \in Emitted :
          /\ Simple(SubSeq(p, 1, Len(p) - 1))
          /\ Cardinality(Repeated(p)) <= 1
          /\ \A x \in Repeated(p) : Occurrences(p, x) = 2 /\ Last(p) = x
    /\ Done =>
          \A a \in 1..Len(log) :
              IsRevisitCall(a) =>
                  /\ ChildCalls(a) = <<>>
                  /\ Len(OwnEmits(a)) = 1
                  /\ OwnEmits(a)[1].path = Append(log[a].path, log[a].node)

C17_Witness ==
    /\ Done
    /\ \E p \in Emitted : Len(p) >= 4 /\ Repeated(p) # {} /\ p[1] \notin Repeated(p)
    /\ \E a \in 1..Len(log) : IsRevisitCall(a) /\ a < Len(log) - 1

\* the node at the end of p was met before at a position after the first
RevisitsInterior(p) ==
    /\ Occurrences(p, p[1]) = 1
    /\ \E a \in 2..(Len(p) - 1) : p[a] = Last(p)

\* C18: an emitted path classified contains-interior-loop revisited a node other
\* than its own start: its first element occurs exactly once in it and its
\* last element equals an element strictly between the first and the last.
C18_InteriorLoop ==
    Done =>
        /\ \A j \in 1..Len(all_paths) :
              verdicts[j] = "contain_loop" => RevisitsInterior(all_paths[j])
        /\ \A t \in Range(contain_loop_paths) :
              \E p \in Emitted : t = RenderCpp(p) /\ RevisitsInterior(p)

C18_Witness ==
    /\ Done
    /\ \E j \in 1..Len(all_paths) :
          /\ verdicts[j] = "contain_loop"
          /\ Len(all_paths[j]) >= 4
          /\ Last(all_paths[j]) = all_paths[j][2]
    /\ contain_loop_paths # <<>>

\* the call that made the call at position c (c is not a top-level call)
Parent(c) ==
    CHOOSE a \in 1..(c - 1) :
        /\ IsCall(a) /\ log[a].depth = log[c].depth - 1
        /\ \A b \in (a + 1)..(c - 1) : ~(IsCall(b) /\ log[b].depth = log[c].depth - 1)

\* the nodes of the calls from the top-level call down to the call at position c
RECURSIVE WalkTo(_)
WalkTo(c) ==
    IF log[c].depth = 1 THEN <<log[c].node>>
    ELSE Append(WalkTo(Parent(c)), log[c].node)

\* the walk from the root to the caller of the call at position c
BranchOf(c) == IF log[c].depth = 1 THEN <<>> ELSE WalkTo(Parent(c))

\* C19: in the history of a whole run, at every call of find_paths the path
\* passed in is exactly the walk from the root to the calling node and the
\* visited set is exactly the set of nodes on that walk, whatever earlier
\* sibling branches visited; so a node visited
\* only on a sibling branch never ends a branch as a revisit: with A->B, A->C,
\* B->D, C->D both A -> B -> D and A -> C -> D are emitted as acyclic.
C19_BranchIsolation ==
    Done =>
        /\ \A c \in 1..Len(log) :
              IsCall(c) =>
                  /\ log[c].path = BranchOf(c)
                  /\ log[c].visited = Range(BranchOf(c))
        /\ edges = Diamond =>
              \A p \in {<<"A", "B", "D">>, <<"A", "C", "D">>} :
                  \E j \in 1..Len(all_paths) :
                      all_paths[j] = p /\ verdicts[j] = "no_loop"

C19_Witness ==
    /\ Done /\ edges = Diamond
    /\ \E c \in 1..Len(log) :
          /\ IsCall(c) /\ log[c].node = "D" /\ log[c].path = <<"A", "C">>
          /\ \E b \in 1..(c - 1) : IsCall(b) /\ log[b].node = "D"

\* C20: the three find_paths are equivalent: given the same input and making
\* their top-level calls on the same nodes, the C program (one shared path
\* array, length by value, visited by scanning the prefix), main.cpp (copies
\* and pop_back/erase) and part_000 (copies only) make the same calls with the
\* same path and visited set, store the same sequence of paths, start the
\* same enumerations and clear the flags of the same nodes.
C20_ImplementationsAgree ==
    (Done /\ run = 2) =>
        /\ all_paths = prev.all_paths
        /\ roots = prev.roots
        /\ log = prev.log
        /\ Inactive = prev.inactive
        /\ verdicts = prev.verdicts

C20_Witness ==
    /\ Done /\ run = 2
    /\ prev.impl = "main.c" /\ impl = "main.cpp"
    /\ Len(roots) >= 2
    /\ \E r \in 1..Len(roots) :
          \E p, q \in RootPaths(r) : Len(p) > Len(q) /\ ~NoRepeat(q)
    /\ Inactive # Sources(edges)

\* the names that have a slot in the C table
TableNames == {graph[j].name : j \in 1..Len(graph)}

\* the adjacency the running program holds: node -> sequence of successors
\* (C++: adj_list; C: the neighbors of the node's slot in the table)
AdjEntries ==
    IF impl = "main.c"
    THEN [n \in TableNames |-> graph[get_node_index(graph, n)].neighbors]
    ELSE adj_list

\* the activation flags the running program holds
FlagMap ==
    IF impl = "main.c"
    THEN [n \in TableNames |-> graph[get_node_index(graph, n)].active]
    ELSE act_dep

IsPrefix(s, t) == Len(s) <= Len(t) /\ SubSeq(t, 1, Len(s)) = s

\* no flag that exists goes from false to true
FlagsOneWay == \A n \in DOMAIN FlagMap : n \in DOMAIN FlagMap' /\ (FlagMap'[n] => FlagMap[n])

\* C21 as claimed: during enumeration the adjacency map is never modified, each
\* activation flag changes only from true to false, and nothing else is
\* written besides appending to the result collection.
C21_Original ==
    [][pc = "loop" =>
          /\ AdjEntries' = AdjEntries
          /\ FlagsOneWay
          /\ IsPrefix(all_paths, all_paths')
          /\ pc' = "loop" => UNCHANGED outVars]_vars

\* C21 as amended: during enumeration no adjacency entry is removed or changed;
\* the C++ map stays as it is, while the C table, which holds adjacency and
\* flags together, gains an entry without successors for a sink the traversal
\* meets; no flag goes from false to true, and a flag that appears belongs to
\* a sink and is cleared in the call that creates it; nothing else is written
\* besides appending to the result collection.
C21_FrameEffect ==
    [][pc = "loop" =>
          /\ \A n \in DOMAIN AdjEntries :
                n \in DOMAIN AdjEntries' /\ AdjEntries'[n] = AdjEntries[n]
          /\ \A n \in DOMAIN AdjEntries' \ DOMAIN AdjEntries :
                impl = "main.c" /\ IsSink(n) /\ AdjEntries'[n] = <<>>
          /\ FlagsOneWay
          /\ \A n \in DOMAIN FlagMap' \ DOMAIN FlagMap : IsSink(n) /\ ~FlagMap'[n]
          /\ IsPrefix(all_paths, all_paths')
          /\ pc' = "loop" => UNCHANGED outVars]_vars

C21_Witness ==
    /\ Done /\ impl = "main.c"
    /\ Len(graph) >= Len(BuildGraph(edges)) + 2
    /\ \E p \in Emitted : ~NoRepeat(p)

\* the length of the walk the activation at depth d works on: the path its
\* parameter refers to (C++), the length it holds after writing its node (C)
WalkLength(d) == IF impl = "main.c" THEN stack[d].length ELSE Len(RefPath(d - 1))

NodeCount == Cardinality(GraphNodes)

\* C22: the recursion depth of every activation equals the length of its walk,
\* and at every point of every enumeration the walk length, and so the length
\* of every emitted path, is at most the number of distinct nodes plus one.
C22_DepthBound ==
    /\ \A d \in 1..Len(stack) : WalkLength(d) = d
    /\ Len(stack) <= NodeCount
    /\ Done =>
          /\ \A a \in 1..Len(log) :
                IsCall(a) => /\ log[a].depth = Len(log[a].path) + 1
                             /\ log[a].depth <= NodeCount + 1
          /\ \A p \in Emitted : Len(p) <= NodeCount + 1

C22_Witness ==
    /\ pc = "loop"
    /\ NodeCount >= 3
    /\ Len(stack) = NodeCount
    /\ \E p \in Emitted : Len(p) = NodeCount + 1

\* the position in the input of the j-th edge that leaves u
EdgeIndexOf(u, j) ==
    CHOOSE x \in 1..Len(edges) :
        edges[x][1] = u /\ Cardinality({y \in 1..x : edges[y][1] = u}) = j

OutDegree(u) == Cardinality({x \in 1..Len(edges) : edges[x][1] = u})

\* the successors of u in the order their edges were read
InputSucc(u) == [j \in 1..OutDegree(u) |-> edges[EdgeIndexOf(u, j)][2]]

\* The paths depth-first exploration of the walk w yields, in order, when
\* the successors of a node are taken in the order their edges were read:
\* all paths through the first successor, then all through the second, ...
RECURSIVE DfsFrom(_), DfsThrough(_, _)
DfsFrom(w) ==
    IF Last(w) \in Range(SubSeq(w, 1, Len(w) - 1)) \/ OutDegree(Last(w)) = 0
    THEN <<w>>
    ELSE DfsThrough(w, 1)

DfsThrough(w, j) ==
    IF j > OutDegree(Last(w)) THEN <<>>
    ELSE DfsFrom(Append(w, InputSucc(Last(w))[j])) \o DfsThrough(w, j + 1)

\* the paths the r-th top-level enumeration emitted, in order
RootPathSeq(r) ==
    LET from == roots[r].base + 1
        to   == IF r < Len(roots) THEN roots[r + 1].base ELSE Len(all_paths)
    IN  SubSeq(all_paths, from, to)

\* C23: successors are explored in stored order, which is the order their edges
\* were read: the successor entries of every source are its targets in input
\* order, and every enumeration emits its paths in depth-first order, all
\* paths through an earlier successor entry of a node before all paths
\* through a later entry of the same node.
C23_SuccessorOrder ==
    Done =>
        /\ \A u \in Sources(edges) : SuccessorEntries(u) = InputSucc(u)
        /\ \A r \in 1..Len(roots) : RootPathSeq(r) = DfsFrom(<<roots[r].node>>)

C23_Witness ==
    /\ Done
    /\ \E a \in 1..Len(log) :
          /\ IsCall(a) /\ log[a].depth >= 2
          /\ Len(ChildCalls(a)) >= 2
          /\ ChildCalls(a)[1].node # ChildCalls(a)[2].node
          /\ ~IsSink(ChildCalls(a)[1].node)

\* u, v are consecutive elements somewhere in p
HasStep(p, u, v) == \E j \in 1..(Len(p) - 1) : p[j] = u /\ p[j + 1] = v

\* the sources that were never the root of a top-level enumeration
Suppressed == Sources(edges) \ RootNodes

\* C24: after a whole run, for every order of the top-level loop, every edge of
\* the input occurs as a pair of consecutive elements in some emitted path, so
\* every node occurs in some emitted path; a suppressed node occurs in paths
\* but never as the first element.
C24_Coverage ==
    Done =>
        /\ \A e \in EdgeSet : \E p \in Emitted : HasStep(p, e[1], e[2])
        /\ \A n \in GraphNodes : \E p \in Emitted : n \in Range(p)
        /\ \A p \in Emitted : p[1] \notin Suppressed

C24_Witness ==
    /\ Done /\ impl # "main.c"
    /\ Suppressed # {}
    /\ Len(roots) >= 2
    /\ order[1] # FirstSources(edges)[1]

IsInputWalk(p) == \A j \in 1..(Len(p) - 1) : <<p[j], p[j + 1]>> \in EdgeSet

\* C25: every emitted path is a walk of the input graph rooted at a top-level
\* entry point: it has at least two elements, every pair of consecutive
\* elements is an edge of the input, and its first element is a key of the
\* adjacency map that was a top-level root; and the driver makes a node a
\* root only when the node's activation flag is true at that moment.
C25_EmittedPathsAreRootedWalks ==
    /\ [](\A p \in Emitted :
             /\ Len(p) >= 2
             /\ IsInputWalk(p)
             /\ p[1] \in RootNodes
             /\ p[1] \in DOMAIN AdjEntries /\ AdjEntries[p[1]] # <<>>)
    /\ [][Len(roots') > Len(roots) =>
              /\ Last(roots').node = DriverOrder[i]
              /\ IsActive(DriverOrder[i])]_vars

C25_Witness ==
    /\ Done
    /\ Suppressed # {}
    /\ \E p \in Emitted : Len(p) = 2
    /\ \E p \in Emitted : Len(p) >= 4 /\ ~NoRepeat(p)

\* C26: when the top-level driver has finished, the activation flag of every
\* node that is the source of an edge is false; and in the C program, whose
\* driver loop runs up to the size the table has grown to, a sink that was
\* added to the table during traversal has its flag cleared and was never
\* started as a top-level root.
C26_FlagsClearedSinksNeverRoots ==
    pc # "loop" =>
        /\ \A k \in Sources(edges) : k \in DOMAIN FlagMap /\ ~FlagMap[k]
        /\ impl = "main.c" =>
              /\ i = Len(graph) + 1
              /\ \A j \in 1..Len(graph) : ~graph[j].active
              /\ \A r \in 1..Len(roots) : ~IsSink(roots[r].node)

C26_Witness ==
    /\ Done /\ impl = "main.c"
    /\ Len(roots) >= 2
    /\ \E j \in 1..Len(graph) : IsSink(graph[j].name) /\ j < Len(graph)

\* C27: in the C program, for an input with at most MAX_NODES distinct nodes
\* (and, so that reading the input itself stays in bounds, at most
\* MAX_NEIGHBORS edges per source), no write goes past a fixed buffer: the index of path[length++] stays below
\* MAX_PATH_LEN, so the buffer never holds more than MAX_PATH_LEN elements, and
\* the index of all_paths[total_paths] stays below MAX_NODES * MAX_NODES, so
\* the result collection never holds more than that many paths.
C27_BuffersInBounds ==
    (impl = "main.c" /\ NodeCount <= MAX_NODES /\ FitsNeighbors(edges)) =>
        /\ Len(path) <= MAX_PATH_LEN
        /\ Len(all_paths) <= AllPathsCapacity

====
